---- MODULE Spec2Model ----
(***************************************************************************)
(* A model of train() in leco_images/train_lora.py: the prompt-encoding    *)
(* phase that fills the PromptEmbedsCache and builds the PromptEmbedsPair  *)
(* list (lines 118-158), and the training loop with its checkpoints        *)
(* (lines 165-363).                                                        *)
(*                                                                         *)
(* Two specifications share the module.  Spec is the training loop, from   *)
(* the creation of the progress bar to "Done.".  SpecCache is the          *)
(* prompt-encoding phase.  The variables of the phase a specification does *)
(* not run keep their initial values.                                      *)
(***************************************************************************)
EXTENDS Integers, Sequences, FiniteSets, TLC

VARIABLES
    \* ---- configuration read by the loop
    iterations,           \* config.train.iterations
    per_steps,            \* config.save.per_steps
    max_denoising_steps,  \* config.train.max_denoising_steps
    numPairs,             \* len(prompt_pairs)
    \* ---- control
    pc,                   \* position in train()
    error,                \* the exception that ended train(), or "none"
    nextI,                \* position of the range(iterations) iterator
    i,                    \* loop variable i (-1: not bound yet)
    \* ---- per-iteration locals
    pairIdx,              \* index of the sampled prompt pair
    timesteps_to,         \* sampled coarse step
    seed,                 \* per-iteration seed
    generator,            \* global torch generator: <<seed, draws since seeding>>
    inpStart,             \* generator state get_noisy_image(img1) started from
    outStart,             \* generator state get_noisy_image(img2) started from
    inpSteps,             \* total_timesteps of the input call
    outSteps,             \* total_timesteps of the output call
    schedSteps,           \* noise_scheduler.num_inference_steps
    current_index,        \* index into noise_scheduler.timesteps
    lossBound,            \* whether the local `loss` is bound
    \* ---- modes
    gradOn,               \* FALSE inside `with torch.no_grad()`
    adapterOn,            \* TRUE while the LoRA network is enabled
    predLog,              \* prediction name -> how that call ran
    \* ---- training effects
    ops,                  \* operations of the current iteration, in order
    optSteps,             \* optimizer.step() calls so far
    lrSteps,              \* lr_scheduler.step() calls so far
    saved,                \* checkpoints written, in order
    \* ---- prompt-encoding phase
    prompts,              \* list[PromptSettings]
    ppc,                  \* position in the prompt-encoding phase
    sIdx,                 \* index of the current settings (1-based)
    rIdx,                 \* index of the current role in the inner for (1..4)
    cache,                \* PromptEmbedsCache: key -> value
    encCalls,             \* key -> number of encode_prompts calls made for it
    prompt_pairs          \* list[PromptEmbedsPair]

trainVars ==
    <<iterations, per_steps, max_denoising_steps, numPairs, pc, error, nextI, i,
      pairIdx, timesteps_to, seed, generator, inpStart, outStart, inpSteps,
      outSteps, schedSteps, current_index, lossBound, gradOn, adapterOn,
      predLog, ops, optSteps, lrSteps, saved>>

cacheVars == <<prompts, ppc, sIdx, rIdx, cache, encCalls, prompt_pairs>>

vars == <<trainVars, cacheVars>>

\* ------------------------------------------------------------------ bounds
MaxIterations == 4
MaxPerSteps == 2
MaxDenoisingSteps == 7
MaxPairs == 2
MaxSeed == 1
MaxSettings == 2

\* ------------------------------------------------------- program constants
\* random.randint(0, 2*15): both ends included
SeedHigh == 30
\* noise_scheduler.set_timesteps(1000)
FullTimetable == 1000

Min(a, b) == IF a < b THEN a ELSE b

\* The values the local `seed` can take, cut to the model's bound.
Seeds == 0 .. Min(SeedHigh, MaxSeed)

\* ---------------------------------------------------------------- helpers
PredNames == {"positive", "neutral", "unconditional", "target", "prev_step"}

NotRun == [ran |-> FALSE, adapter |-> FALSE, grad |-> FALSE, index |-> -1]

\* One call of predict_noise / prev_step: the modes it ran under and the index
\* of the timestep it was given.
Ran(a, g, t) == [ran |-> TRUE, adapter |-> a, grad |-> g, index |-> t]

\* LoRANetwork as constructed: not inside its enabled scope.
NetworkInit == FALSE

\* LoRANetwork.__enter__: the adapter's delta is added from here on.
NetworkEnter == TRUE

\* LoRANetwork.__exit__: only the base computation runs from here on.
NetworkExit == FALSE

\* torch.manual_seed(s): the global generator restarts the stream of seed s.
ManualSeed(s) == <<s, 0>>

\* train_util.get_noisy_image draws its initial latent noise from the generator.
NoisyDraw(g) == <<g[1], g[2] + 1>>

\* SampleRange with the upper end included, as random.randint would have it.
SampleRange_Inclusive(M) == 1 .. (M - 1)

\* torch.randint(1, max_denoising_steps - 1, (1,)): low included, high excluded.
SampleRange(M) == 1 .. (M - 2)

\* FineIndex with round() in place of int().
FineIndex_Round(t, M) == (2 * t * 1000 + M) \div (2 * M)

\* int(timesteps_to * 1000 / max_denoising_steps): int() truncates.
FineIndex(t, M) == (t * 1000) \div M

\* ShouldSave without the test for the final iteration.
ShouldSave_NoLastGuard(k, P, N) == k % P = 0 /\ k # 0

\* The condition of the intermediate save.
ShouldSave(k, P, N) == k % P = 0 /\ k # 0 /\ k # N - 1

\* network.save_weights(save_path / name): what the written file holds.
Checkpoint(name, k, updates) == [name |-> name, step |-> k, updates |-> updates]

\* ------------------------------------------------ the prompt-phase at rest
CacheIdle ==
    /\ prompts = <<>>
    /\ ppc = "encoded"
    /\ sIdx = 0
    /\ rIdx = 0
    /\ cache = <<>>
    /\ encCalls = <<>>
    /\ prompt_pairs = <<>>

\* ------------------------------------------------------------ training loop
\* The state at `pbar = tqdm(range(config.train.iterations))`.
Init ==
    /\ iterations \in 0 .. MaxIterations
    /\ per_steps \in 1 .. MaxPerSteps
    /\ max_denoising_steps \in 1 .. MaxDenoisingSteps
    /\ numPairs \in 1 .. MaxPairs
    /\ pc = "loop"
    /\ error = "none"
    /\ nextI = 0
    /\ i = -1
    /\ pairIdx = -1
    /\ timesteps_to = 0
    /\ seed = -1
    /\ generator = <<-1, 0>>
    /\ inpStart = <<-1, -1>>
    /\ outStart = <<-1, -1>>
    /\ inpSteps = 0
    /\ outSteps = 0
    /\ schedSteps = 0
    /\ current_index = -1
    /\ lossBound = FALSE
    /\ gradOn = TRUE
    /\ adapterOn = NetworkInit
    /\ predLog = [p \in PredNames |-> NotRun]
    /\ ops = <<>>
    /\ optSteps = 0
    /\ lrSteps = 0
    /\ saved = <<>>
    /\ CacheIdle

config == <<iterations, per_steps, max_denoising_steps, numPairs>>

\* for i in pbar: the iterator yields the next index.
LoopNext ==
    /\ pc = "loop"
    /\ nextI < iterations
    /\ i' = nextI
    /\ nextI' = nextI + 1
    /\ ops' = <<>>
    /\ pc' = "set_timesteps"
    /\ UNCHANGED <<cacheVars, config, error, pairIdx, timesteps_to, seed, generator, inpStart,
                   outStart, inpSteps, outSteps, schedSteps, current_index,
                   lossBound, gradOn, adapterOn, predLog, optSteps, lrSteps, saved>>

\* for i in pbar: the iterator is exhausted.
LoopExit ==
    /\ pc = "loop"
    /\ nextI >= iterations
    /\ pc' = "final_save"
    /\ UNCHANGED <<cacheVars, config, error, nextI, i, pairIdx, timesteps_to, seed, generator,
                   inpStart, outStart, inpSteps, outSteps, schedSteps,
                   current_index, lossBound, gradOn, adapterOn, predLog, ops,
                   optSteps, lrSteps, saved>>

\* with torch.no_grad(): noise_scheduler.set_timesteps(max_denoising_steps)
SetTimesteps ==
    /\ pc = "set_timesteps"
    /\ gradOn' = FALSE
    /\ schedSteps' = max_denoising_steps
    /\ pc' = "zero_grad"
    /\ UNCHANGED <<cacheVars, config, error, nextI, i, pairIdx, timesteps_to, seed, generator,
                   inpStart, outStart, inpSteps, outSteps, current_index,
                   lossBound, adapterOn, predLog, ops, optSteps, lrSteps, saved>>

\* optimizer.zero_grad()
ZeroGrad ==
    /\ pc = "zero_grad"
    /\ ops' = Append(ops, "zero_grad")
    /\ pc' = "sample"
    /\ UNCHANGED <<cacheVars, config, error, nextI, i, pairIdx, timesteps_to, seed, generator,
                   inpStart, outStart, inpSteps, outSteps, schedSteps,
                   current_index, lossBound, gradOn, adapterOn, predLog,
                   optSteps, lrSteps, saved>>

\* The prompt pair, the coarse step and the seed are drawn, and the generator
\* is seeded for the first get_noisy_image call.
Sample ==
    /\ pc = "sample"
    /\ SampleRange(max_denoising_steps) # {}
    /\ pairIdx' \in 0 .. (numPairs - 1)
    /\ timesteps_to' \in SampleRange(max_denoising_steps)
    /\ seed' \in Seeds
    /\ generator' = ManualSeed(seed')
    /\ pc' = "noisy_inp"
    /\ UNCHANGED <<cacheVars, config, error, nextI, i, inpStart, outStart, inpSteps, outSteps,
                   schedSteps, current_index, lossBound, gradOn, adapterOn,
                   predLog, ops, optSteps, lrSteps, saved>>

\* torch.randint raises when its range is empty; the exception leaves the
\* no_grad scope and train().
SampleRaise ==
    /\ pc = "sample"
    /\ SampleRange(max_denoising_steps) = {}
    /\ pairIdx' \in 0 .. (numPairs - 1)
    /\ gradOn' = TRUE
    /\ error' = "randint"
    /\ pc' = "raised"
    /\ UNCHANGED <<cacheVars, config, nextI, i, timesteps_to, seed, generator, inpStart,
                   outStart, inpSteps, outSteps, schedSteps, current_index,
                   lossBound, adapterOn, predLog, ops, optSteps, lrSteps, saved>>

\* denoised_latents_inp = get_noisy_image(img1, ..., total_timesteps=timesteps_to)
NoisyInp ==
    /\ pc = "noisy_inp"
    /\ inpStart' = generator
    /\ inpSteps' = timesteps_to
    /\ generator' = NoisyDraw(generator)
    /\ pc' = "reseed"
    /\ UNCHANGED <<cacheVars, config, error, nextI, i, pairIdx, timesteps_to, seed, outStart,
                   outSteps, schedSteps, current_index, lossBound, gradOn,
                   adapterOn, predLog, ops, optSteps, lrSteps, saved>>

\* Reseed left out: the second call goes on from where the first one stopped.
Reseed_Missing ==
    /\ pc = "reseed"
    /\ pc' = "noisy_out"
    /\ UNCHANGED <<cacheVars, config, error, nextI, i, pairIdx, timesteps_to, seed,
                   generator, inpStart, outStart, inpSteps, outSteps, schedSteps,
                   current_index, lossBound, gradOn, adapterOn, predLog, ops,
                   optSteps, lrSteps, saved>>

\* generator = torch.manual_seed(seed), the second time
Reseed ==
    /\ pc = "reseed"
    /\ generator' = ManualSeed(seed)
    /\ pc' = "noisy_out"
    /\ UNCHANGED <<cacheVars, config, error, nextI, i, pairIdx, timesteps_to, seed, inpStart,
                   outStart, inpSteps, outSteps, schedSteps, current_index,
                   lossBound, gradOn, adapterOn, predLog, ops, optSteps, lrSteps,
                   saved>>

\* denoised_latents_out = get_noisy_image(img2, ..., total_timesteps=timesteps_to+1)
NoisyOut ==
    /\ pc = "noisy_out"
    /\ outStart' = generator
    /\ outSteps' = timesteps_to + 1
    /\ generator' = NoisyDraw(generator)
    /\ pc' = "fine_timestep"
    /\ UNCHANGED <<cacheVars, config, error, nextI, i, pairIdx, timesteps_to, seed, inpStart,
                   inpSteps, schedSteps, current_index, lossBound, gradOn,
                   adapterOn, predLog, ops, optSteps, lrSteps, saved>>

\* noise_scheduler.set_timesteps(1000); current_timestep = timesteps[int(...)]
FineTimestep ==
    /\ pc = "fine_timestep"
    /\ schedSteps' = FullTimetable
    /\ current_index' = FineIndex(timesteps_to, max_denoising_steps)
    /\ pc' = "predict_positive"
    /\ UNCHANGED <<cacheVars, config, error, nextI, i, pairIdx, timesteps_to, seed, generator,
                   inpStart, outStart, inpSteps, outSteps, lossBound, gradOn,
                   adapterOn, predLog, ops, optSteps, lrSteps, saved>>

\* One predict_noise call at position `at`, logged under `name`.
Predict(at, name, next) ==
    /\ pc = at
    /\ predLog' = [predLog EXCEPT ![name] = Ran(adapterOn, gradOn, current_index)]
    /\ ops' = Append(ops, name)
    /\ pc' = next
    /\ UNCHANGED <<cacheVars, config, error, nextI, i, pairIdx, timesteps_to, seed, generator,
                   inpStart, outStart, inpSteps, outSteps, schedSteps,
                   current_index, lossBound, gradOn, adapterOn, optSteps,
                   lrSteps, saved>>

PredictPositive == Predict("predict_positive", "positive", "predict_neutral")

PredictNeutral == Predict("predict_neutral", "neutral", "predict_unconditional")

PredictUnconditional == Predict("predict_unconditional", "unconditional", "enter_network")

\* EnterNetwork without the with statement: the no_grad scope ends and the
\* target prediction follows with the adapter as it was.
EnterNetwork_NoWith ==
    /\ pc = "enter_network"
    /\ gradOn' = TRUE
    /\ pc' = "predict_target"
    /\ UNCHANGED <<cacheVars, config, error, nextI, i, pairIdx, timesteps_to, seed,
                   generator, inpStart, outStart, inpSteps, outSteps, schedSteps,
                   current_index, lossBound, adapterOn, predLog, ops, optSteps,
                   lrSteps, saved>>

\* The no_grad scope ends and `with network:` begins.
EnterNetwork ==
    /\ pc = "enter_network"
    /\ gradOn' = TRUE
    /\ adapterOn' = NetworkEnter
    /\ pc' = "predict_target"
    /\ UNCHANGED <<cacheVars, config, error, nextI, i, pairIdx, timesteps_to, seed, generator,
                   inpStart, outStart, inpSteps, outSteps, schedSteps,
                   current_index, lossBound, predLog, ops, optSteps, lrSteps,
                   saved>>

PredictTarget == Predict("predict_target", "target", "prev_step")

\* target_sample = prev_step(target_latents, current_timestep, ...)
PrevStep ==
    /\ pc = "prev_step"
    /\ predLog' = [predLog EXCEPT !["prev_step"] = Ran(adapterOn, gradOn, current_index)]
    /\ pc' = "exit_network"
    /\ UNCHANGED <<cacheVars, config, error, nextI, i, pairIdx, timesteps_to, seed, generator,
                   inpStart, outStart, inpSteps, outSteps, schedSteps,
                   current_index, lossBound, gradOn, adapterOn, ops, optSteps,
                   lrSteps, saved>>

\* The end of the `with network:` block.
ExitNetwork ==
    /\ pc = "exit_network"
    /\ adapterOn' = NetworkExit
    /\ pc' = "loss"
    /\ UNCHANGED <<cacheVars, config, error, nextI, i, pairIdx, timesteps_to, seed, generator,
                   inpStart, outStart, inpSteps, outSteps, schedSteps,
                   current_index, lossBound, gradOn, predLog, ops, optSteps,
                   lrSteps, saved>>

\* A model call inside the no_grad scope raises: the scope restores gradients.
FailInNoGrad ==
    /\ pc \in {"noisy_inp", "noisy_out", "predict_positive", "predict_neutral",
               "predict_unconditional"}
    /\ gradOn' = TRUE
    /\ error' = "framework"
    /\ pc' = "raised"
    /\ UNCHANGED <<cacheVars, config, nextI, i, pairIdx, timesteps_to, seed, generator,
                   inpStart, outStart, inpSteps, outSteps, schedSteps,
                   current_index, lossBound, adapterOn, predLog, ops, optSteps,
                   lrSteps, saved>>

\* A call inside `with network:` raises: the with statement runs __exit__.
FailInNetwork ==
    /\ pc \in {"predict_target", "prev_step"}
    /\ adapterOn' = NetworkExit
    /\ error' = "framework"
    /\ pc' = "raised"
    /\ UNCHANGED <<cacheVars, config, nextI, i, pairIdx, timesteps_to, seed, generator,
                   inpStart, outStart, inpSteps, outSteps, schedSteps,
                   current_index, lossBound, gradOn, predLog, ops, optSteps,
                   lrSteps, saved>>

\* loss = criteria(target_sample, denoised_latents_out)
Loss ==
    /\ pc = "loss"
    /\ lossBound' = TRUE
    /\ ops' = Append(ops, "loss")
    /\ pc' = "backward"
    /\ UNCHANGED <<cacheVars, config, error, nextI, i, pairIdx, timesteps_to, seed, generator,
                   inpStart, outStart, inpSteps, outSteps, schedSteps,
                   current_index, gradOn, adapterOn, predLog, optSteps, lrSteps,
                   saved>>

\* loss.backward()
Backward ==
    /\ pc = "backward"
    /\ ops' = Append(ops, "backward")
    /\ pc' = "optimizer_step"
    /\ UNCHANGED <<cacheVars, config, error, nextI, i, pairIdx, timesteps_to, seed, generator,
                   inpStart, outStart, inpSteps, outSteps, schedSteps,
                   current_index, lossBound, gradOn, adapterOn, predLog,
                   optSteps, lrSteps, saved>>

\* OptimizerStep left out: the loop goes on to the scheduler step.
OptimizerStep_Skipped ==
    /\ pc = "optimizer_step"
    /\ pc' = "lr_step"
    /\ UNCHANGED <<cacheVars, config, error, nextI, i, pairIdx, timesteps_to, seed,
                   generator, inpStart, outStart, inpSteps, outSteps, schedSteps,
                   current_index, lossBound, gradOn, adapterOn, predLog, ops,
                   optSteps, lrSteps, saved>>

\* optimizer.step()
OptimizerStep ==
    /\ pc = "optimizer_step"
    /\ optSteps' = optSteps + 1
    /\ ops' = Append(ops, "optimizer_step")
    /\ pc' = "lr_step"
    /\ UNCHANGED <<cacheVars, config, error, nextI, i, pairIdx, timesteps_to, seed, generator,
                   inpStart, outStart, inpSteps, outSteps, schedSteps,
                   current_index, lossBound, gradOn, adapterOn, predLog, lrSteps,
                   saved>>

\* lr_scheduler.step()
LrStep ==
    /\ pc = "lr_step"
    /\ lrSteps' = lrSteps + 1
    /\ ops' = Append(ops, "lr_step")
    /\ pc' = "checkpoint"
    /\ UNCHANGED <<cacheVars, config, error, nextI, i, pairIdx, timesteps_to, seed, generator,
                   inpStart, outStart, inpSteps, outSteps, schedSteps,
                   current_index, lossBound, gradOn, adapterOn, predLog,
                   optSteps, saved>>

\* del (the four predictions); flush(); the save condition holds.
CheckpointSave ==
    /\ pc = "checkpoint"
    /\ ShouldSave(i, per_steps, iterations)
    /\ predLog' = [p \in PredNames |-> NotRun]
    /\ saved' = Append(saved, Checkpoint("steps", i, optSteps))
    /\ ops' = Append(ops, "save")
    /\ pc' = "loop"
    /\ UNCHANGED <<cacheVars, config, error, nextI, i, pairIdx, timesteps_to, seed, generator,
                   inpStart, outStart, inpSteps, outSteps, schedSteps,
                   current_index, lossBound, gradOn, adapterOn, optSteps,
                   lrSteps>>

\* del (the four predictions); flush(); the save condition fails.
CheckpointSkip ==
    /\ pc = "checkpoint"
    /\ ~ShouldSave(i, per_steps, iterations)
    /\ predLog' = [p \in PredNames |-> NotRun]
    /\ pc' = "loop"
    /\ UNCHANGED <<cacheVars, config, error, nextI, i, pairIdx, timesteps_to, seed, generator,
                   inpStart, outStart, inpSteps, outSteps, schedSteps,
                   current_index, lossBound, gradOn, adapterOn, ops, optSteps,
                   lrSteps, saved>>

\* After the loop: network.save_weights(save_path / f"{name}_last.pt")
FinalSave ==
    /\ pc = "final_save"
    /\ saved' = Append(saved, Checkpoint("last", i, optSteps))
    /\ pc' = "cleanup"
    /\ UNCHANGED <<cacheVars, config, error, nextI, i, pairIdx, timesteps_to, seed, generator,
                   inpStart, outStart, inpSteps, outSteps, schedSteps,
                   current_index, lossBound, gradOn, adapterOn, predLog, ops,
                   optSteps, lrSteps>>

\* del (unet, noise_scheduler, loss, optimizer, network); flush(); print("Done.")
Cleanup ==
    /\ pc = "cleanup"
    /\ lossBound
    /\ pc' = "done"
    /\ UNCHANGED <<cacheVars, config, error, nextI, i, pairIdx, timesteps_to, seed, generator,
                   inpStart, outStart, inpSteps, outSteps, schedSteps,
                   current_index, lossBound, gradOn, adapterOn, predLog, ops,
                   optSteps, lrSteps, saved>>

\* del of the local `loss` that no iteration bound raises UnboundLocalError.
CleanupRaise ==
    /\ pc = "cleanup"
    /\ ~lossBound
    /\ error' = "UnboundLocalError"
    /\ pc' = "raised"
    /\ UNCHANGED <<cacheVars, config, nextI, i, pairIdx, timesteps_to, seed, generator,
                   inpStart, outStart, inpSteps, outSteps, schedSteps,
                   current_index, lossBound, gradOn, adapterOn, predLog, ops,
                   optSteps, lrSteps, saved>>

Next ==
    \/ LoopNext \/ LoopExit \/ SetTimesteps \/ ZeroGrad \/ Sample \/ SampleRaise
    \/ NoisyInp \/ Reseed \/ NoisyOut \/ FineTimestep
    \/ PredictPositive \/ PredictNeutral \/ PredictUnconditional
    \/ EnterNetwork \/ PredictTarget \/ PrevStep \/ ExitNetwork
    \/ FailInNoGrad \/ FailInNetwork
    \/ Loss \/ Backward \/ OptimizerStep \/ LrStep
    \/ CheckpointSave \/ CheckpointSkip \/ FinalSave \/ Cleanup \/ CleanupRaise

Spec == Init /\ [][Next]_vars

\* -------------------------------------------------- prompt-encoding phase
\* A prompt of a role: a single string, or a list of strings.
Str(s) == [isList |-> FALSE, items |-> <<s>>]

List(l) == [isList |-> TRUE, items |-> l]

\* The prompts a role is given in the model.
PromptValues == {Str("a"), List(<<>>), List(<<"b">>), List(<<"c">>)}

\* The prompts the neutral role is given in the model.
NeutralValues == {Str("a"), List(<<>>)}

\* PromptSettings: the four prompt roles.
SettingsSet ==
    [target : PromptValues, positive : PromptValues, neutral : NeutralValues,
     unconditional : {Str("")}]

\* The order of the inner `for prompt in [...]`.
Roles == <<"target", "positive", "neutral", "unconditional">>

\* PromptEmbedsCache values: nothing stored, the empty-result marker `[]`,
\* or the embedding of a list of strings.
None == [tag |-> "none", of |-> <<>>]

Empty == [tag |-> "empty", of |-> <<>>]

Emb(l) == [tag |-> "emb", of |-> l]

Keys == {"a", "", "positive", "attributes"}

\* PromptEmbedsCache.__getitem__: the stored value, or None when absent.
CacheGet(c, k) == IF k \in DOMAIN c THEN c[k] ELSE None

\* PromptEmbedsCache.__setitem__
CacheSet(c, k, v) == [x \in (DOMAIN c) \cup {k} |-> IF x = k THEN v ELSE c[x]]

\* train_util.encode_prompts(tokenizer, text_encoder, prompts)
EncodePrompts(l) == Emb(l)

\* key_setting of a list-valued prompt
KeySetting(prompt, settings) ==
    IF prompt = settings.positive THEN "positive" ELSE "attributes"

\* IsNone as a truth test (`not cache[key_setting]`): `[]` counts as missing.
IsNone_Falsy(v) == v.tag \in {"none", "empty"}

\* `cache[key_setting] is None`
IsNone(v) == v.tag = "none"

\* `cache[prompt] == None`
EqNone(v) == v.tag = "none"

\* cache[settings.<role>] as PromptEmbedsPair is given it: the subscript is the
\* role's prompt itself, and no list is a key of the cache.
PairLookup(c, prompt) ==
    IF prompt.isList THEN None ELSE CacheGet(c, prompt.items[1])

\* PromptEmbedsPair(criteria, target, positive, unconditional, neutral, settings)
PromptEmbedsPair(c, settings) ==
    [target        |-> PairLookup(c, settings.target),
     positive      |-> PairLookup(c, settings.positive),
     unconditional |-> PairLookup(c, settings.unconditional),
     neutral       |-> PairLookup(c, settings.neutral),
     settings      |-> settings]

\* The training loop before it starts.
TrainIdle ==
    /\ iterations = 0
    /\ per_steps = 1
    /\ max_denoising_steps = 3
    /\ numPairs = 0
    /\ pc = "prompts"
    /\ error = "none"
    /\ nextI = 0
    /\ i = -1
    /\ pairIdx = -1
    /\ timesteps_to = 0
    /\ seed = -1
    /\ generator = <<-1, 0>>
    /\ inpStart = <<-1, -1>>
    /\ outStart = <<-1, -1>>
    /\ inpSteps = 0
    /\ outSteps = 0
    /\ schedSteps = 0
    /\ current_index = -1
    /\ lossBound = FALSE
    /\ gradOn = TRUE
    /\ adapterOn = NetworkInit
    /\ predLog = [p \in PredNames |-> NotRun]
    /\ ops = <<>>
    /\ optSteps = 0
    /\ lrSteps = 0
    /\ saved = <<>>

SettingsLists == UNION {[1 .. n -> SettingsSet] : n \in 0 .. MaxSettings}

\* The state at `cache = PromptEmbedsCache()`.
InitCache ==
    /\ prompts \in SettingsLists
    /\ ppc = "settings"
    /\ sIdx = 0
    /\ rIdx = 0
    /\ cache = <<>>
    /\ encCalls = [k \in Keys |-> 0]
    /\ prompt_pairs = <<>>
    /\ TrainIdle

CurSettings == prompts[sIdx]

CurPrompt == CurSettings[Roles[rIdx]]

\* for settings in prompts: the next settings
NextSettings ==
    /\ ppc = "settings"
    /\ sIdx < Len(prompts)
    /\ sIdx' = sIdx + 1
    /\ rIdx' = 1
    /\ ppc' = "roles"
    /\ UNCHANGED <<trainVars, prompts, cache, encCalls, prompt_pairs>>

\* for settings in prompts: exhausted; the no_grad block ends
EndSettings ==
    /\ ppc = "settings"
    /\ sIdx >= Len(prompts)
    /\ ppc' = "encoded"
    /\ UNCHANGED <<trainVars, prompts, sIdx, rIdx, cache, encCalls, prompt_pairs>>

\* The inner for moves on: to the next role, or to the PromptEmbedsPair.
AfterRole ==
    /\ rIdx' = rIdx + 1
    /\ ppc' = IF rIdx = Len(Roles) THEN "pair" ELSE "roles"
    /\ UNCHANGED <<trainVars, prompts, sIdx, prompt_pairs>>

\* A list-valued prompt that is empty: cache[key_setting] = []
RoleListEmpty ==
    /\ ppc = "roles"
    /\ CurPrompt.isList
    /\ Len(CurPrompt.items) = 0
    /\ cache' = CacheSet(cache, KeySetting(CurPrompt, CurSettings), Empty)
    /\ UNCHANGED encCalls
    /\ AfterRole

\* A non-empty list-valued prompt whose key holds None: encode and store
RoleListEncode ==
    /\ ppc = "roles"
    /\ CurPrompt.isList
    /\ Len(CurPrompt.items) # 0
    /\ LET k == KeySetting(CurPrompt, CurSettings)
       IN  /\ IsNone(CacheGet(cache, k))
           /\ cache' = CacheSet(cache, k, EncodePrompts(CurPrompt.items))
           /\ encCalls' = [encCalls EXCEPT ![k] = @ + 1]
    /\ AfterRole

\* A non-empty list-valued prompt whose key holds a value: nothing is done
RoleListHit ==
    /\ ppc = "roles"
    /\ CurPrompt.isList
    /\ Len(CurPrompt.items) # 0
    /\ ~IsNone(CacheGet(cache, KeySetting(CurPrompt, CurSettings)))
    /\ UNCHANGED <<cache, encCalls>>
    /\ AfterRole

\* A string prompt the cache does not hold: encode [prompt] and store
RoleStrEncode ==
    /\ ppc = "roles"
    /\ ~CurPrompt.isList
    /\ LET k == CurPrompt.items[1]
       IN  /\ EqNone(CacheGet(cache, k))
           /\ cache' = CacheSet(cache, k, EncodePrompts(<<k>>))
           /\ encCalls' = [encCalls EXCEPT ![k] = @ + 1]
    /\ AfterRole

\* A string prompt the cache holds: nothing is done
RoleStrHit ==
    /\ ppc = "roles"
    /\ ~CurPrompt.isList
    /\ ~EqNone(CacheGet(cache, CurPrompt.items[1]))
    /\ UNCHANGED <<cache, encCalls>>
    /\ AfterRole

\* prompt_pairs.append(PromptEmbedsPair(...))
AppendPair ==
    /\ ppc = "pair"
    /\ prompt_pairs' = Append(prompt_pairs, PromptEmbedsPair(cache, CurSettings))
    /\ ppc' = "settings"
    /\ UNCHANGED <<trainVars, prompts, sIdx, rIdx, cache, encCalls>>

NextCache ==
    \/ NextSettings \/ EndSettings
    \/ RoleListEmpty \/ RoleListEncode \/ RoleListHit
    \/ RoleStrEncode \/ RoleStrHit
    \/ AppendPair

SpecCache == InitCache /\ [][NextCache]_vars

\* =================================================================== claims
\* ---- shared vocabulary
\* The iteration indices an intermediate checkpoint `{name}_{i}steps` was written at.
StepEntries == {n \in 1 .. Len(saved) : saved[n].name = "steps"}

LastEntries == {n \in 1 .. Len(saved) : saved[n].name = "last"}

IntermediateSteps == {saved[n].step : n \in StepEntries}

\* The loop has ended without an exception.
LoopOver == pc \in {"final_save", "cleanup", "done"}

\* Iteration k has passed its save statement.
PastSave(k) == k < i \/ (k = i /\ (pc = "loop" \/ LoopOver))

Abs(x) == IF x < 0 THEN -x ELSE x

Count(seq, x) == Cardinality({n \in 1 .. Len(seq) : seq[n] = x})

IsPrefix(a, b) == Len(a) <= Len(b) /\ \A n \in 1 .. Len(a) : a[n] = b[n]

\* Positions of the current iteration at which the values named are its own.
AfterNoisyInp ==
    {"reseed", "noisy_out", "fine_timestep", "predict_positive", "predict_neutral",
     "predict_unconditional", "enter_network", "predict_target", "prev_step",
     "exit_network", "loss", "backward", "optimizer_step", "lr_step", "checkpoint"}

AfterNoisyOut == AfterNoisyInp \ {"reseed", "noisy_out"}

AfterFineTimestep == AfterNoisyOut \ {"fine_timestep"}

InNetworkScope == {"predict_target", "prev_step", "exit_network"}

\* C1: with iterations = N >= 1 and save.per_steps = P >= 1, the indices at
\* which an intermediate checkpoint is written are exactly the i with
\* 0 < i < N-1 and i mod P = 0: no other index is ever written, each such index
\* is written (once) as soon as its iteration has passed the save statement,
\* and when the loop is over the set is exactly that one.
C1_IntermediateCheckpoints ==
    iterations >= 1 =>
        LET due == {k \in 0 .. iterations - 1 :
                        0 < k /\ k < iterations - 1 /\ k % per_steps = 0}
        IN  /\ IntermediateSteps \subseteq due
            /\ Cardinality(StepEntries) = Cardinality(IntermediateSteps)
            /\ \A k \in due : PastSave(k) => k \in IntermediateSteps
            /\ LoopOver => IntermediateSteps = due

\* C1 witness: a finished run that wrote the checkpoint of step 2 and none at
\* step 0 or at the final step 3.
C1_Witness ==
    /\ pc = "done"
    /\ iterations = 4
    /\ per_steps = 2
    /\ IntermediateSteps = {2}

\* C2: a run in which no model, file or framework call fails executes exactly
\* `iterations` loop iterations, writes exactly one final checkpoint after the
\* last of them and ends at DONE, for every iterations >= 0; with
\* iterations = 1 and per_steps > 1 it writes no intermediate checkpoint.
C2_RunReachesDone ==
    (pc \in {"done", "raised"} /\ error \notin {"framework", "randint"}) =>
        /\ pc = "done"
        /\ nextI = iterations
        /\ optSteps = iterations
        /\ Cardinality(LastEntries) = 1
        /\ saved[Len(saved)].name = "last"
        /\ (iterations = 1 /\ per_steps > 1) => StepEntries = {}

\* C5: the adapter is enabled exactly while control is inside `with network`;
\* the positive, neutral and unconditional predictions run with the adapter
\* and gradients disabled, the target prediction and the reverse step with the
\* adapter enabled, and the adapter is disabled after the scope is left,
\* also when an exception leaves it.
C5_AdapterScope ==
    /\ adapterOn <=> pc \in InNetworkScope
    /\ \A p \in {"positive", "neutral", "unconditional"} :
          predLog[p].ran => (~predLog[p].adapter /\ ~predLog[p].grad)
    /\ \A p \in {"target", "prev_step"} : predLog[p].ran => predLog[p].adapter
    /\ pc = "raised" => ~adapterOn

\* C5 witness: an exception raised by the reverse step, inside the scope and
\* after the target prediction, has left the adapter disabled.
C5_Witness ==
    /\ pc = "raised"
    /\ error = "framework"
    /\ predLog["target"].ran
    /\ predLog["target"].adapter
    /\ ~predLog["prev_step"].ran
    /\ ~adapterOn

\* C6: in every iteration both get_noisy_image calls start from the generator
\* freshly seeded with the iteration's seed (no draw since the seeding), the
\* first with step count t and the second with t+1.
C6_SameSeedStream ==
    /\ pc \in AfterNoisyInp => (inpStart = <<seed, 0>> /\ inpSteps = timesteps_to)
    /\ pc \in AfterNoisyOut =>
          /\ outStart = <<seed, 0>>
          /\ outStart = inpStart
          /\ outSteps = timesteps_to + 1

\* C6 witness: the second iteration's two calls have run from seed 1.
C6_Witness ==
    /\ pc = "fine_timestep"
    /\ i = 1
    /\ seed = 1
    /\ inpStart = <<1, 0>>
    /\ outStart = <<1, 0>>

\* C7, as claimed: the index of the fine-grained timestep is t*1000/M rounded
\* to the nearest integer, lies in 0..999, and all four predictions use it.
C7_RoundedIndex ==
    pc \in AfterFineTimestep =>
        /\ 2 * Abs(current_index * max_denoising_steps - timesteps_to * 1000)
               <= max_denoising_steps
        /\ current_index \in 0 .. 999
        /\ \A p \in {"positive", "neutral", "unconditional", "target"} :
              predLog[p].ran => predLog[p].index = current_index

\* C7, amended: the index is t*1000/M truncated to an integer (the largest
\* integer not above it), lies in 0..999, and all four predictions use it.
C7_TruncatedIndex ==
    pc \in AfterFineTimestep =>
        /\ current_index * max_denoising_steps <= timesteps_to * 1000
        /\ timesteps_to * 1000 < (current_index + 1) * max_denoising_steps
        /\ current_index \in 0 .. 999
        /\ \A p \in {"positive", "neutral", "unconditional", "target"} :
              predLog[p].ran => predLog[p].index = current_index

\* C7 witness: M = 6 and t = 1 give index 166 (1000/6 = 166.67) for all four
\* predictions.
C7_Witness ==
    /\ pc = "loss"
    /\ max_denoising_steps = 6
    /\ timesteps_to = 1
    /\ current_index = 166
    /\ \A p \in {"positive", "neutral", "unconditional", "target"} :
          predLog[p].ran /\ predLog[p].index = 166

IterationOrder ==
    <<"zero_grad", "positive", "neutral", "unconditional", "target", "loss",
      "backward", "optimizer_step", "lr_step", "save">>

\* C10: in every iteration the operations run in the order zero_grad, the
\* three frozen predictions, the adapter-enabled prediction, loss, backward,
\* optimizer step, scheduler step, then the optional save, with one optimizer
\* step and one scheduler step per iteration; the checkpoint of iteration i
\* holds the weights after i+1 optimizer updates and the final checkpoint
\* after `iterations` updates.
C10_IterationOrder ==
    /\ IsPrefix(ops, IterationOrder)
    /\ (pc = "loop" /\ i >= 0) => Len(ops) >= Len(IterationOrder) - 1
    /\ pc = "checkpoint" => Len(ops) = Len(IterationOrder) - 1
    /\ optSteps = (IF i < 0 THEN 0 ELSE i + Count(ops, "optimizer_step"))
    /\ lrSteps = (IF i < 0 THEN 0 ELSE i + Count(ops, "lr_step"))
    /\ \A n \in StepEntries : saved[n].updates = saved[n].step + 1
    /\ \A n \in LastEntries : saved[n].updates = iterations

\* C10 witness: a finished run of 4 iterations whose checkpoint of step 2
\* holds 3 updates and whose final checkpoint holds 4.
C10_Witness ==
    /\ pc = "done"
    /\ iterations = 4
    /\ \E n \in StepEntries : saved[n].step = 2 /\ saved[n].updates = 3
    /\ \E n \in LastEntries : saved[n].updates = 4
    /\ ops = SubSeq(IterationOrder, 1, 9)

\* What the pair of a settings should hold for a role's prompt: the encoding
\* of that prompt, or the empty marker for an empty list.
OwnEncoding(prompt) ==
    IF prompt.isList /\ Len(prompt.items) = 0 THEN Empty ELSE Emb(prompt.items)

\* The inner for is at an empty list-valued prompt.
AtEmptyList == ppc = "roles" /\ CurPrompt.isList /\ Len(CurPrompt.items) = 0

\* C3: the text encoder is invoked at most once per cache key, and whenever a
\* key already holds an embedding, no encoder call is made for it and the
\* stored embedding stays as it is, for later lookups to return.
C3_EncodeOncePerKey ==
    [][\A k \in Keys :
          /\ encCalls'[k] <= 1
          /\ CacheGet(cache, k).tag = "emb" =>
                (encCalls'[k] = encCalls[k] /\ CacheGet(cache', k) = CacheGet(cache, k))
      ]_vars

\* C4: an empty list-valued prompt stores the empty marker under its key
\* without an encoder call, and a key computed as empty is never taken for
\* one not yet computed: no encoder call is made for it and it stays empty.
C4_EmptyMarker ==
    [][/\ AtEmptyList =>
            /\ encCalls' = encCalls
            /\ CacheGet(cache', KeySetting(CurPrompt, CurSettings)) = Empty
            /\ CurPrompt = CurSettings.positive => CacheGet(cache', "positive") = Empty
       /\ \A k \in Keys :
            CacheGet(cache, k) = Empty =>
                (encCalls'[k] = encCalls[k] /\ CacheGet(cache', k) = Empty)
      ]_vars

\* C4 witness: the first settings' positive list was empty, the second's was
\* not, and at the end `positive` holds the empty marker and was never encoded.
C4_Witness ==
    /\ ppc = "encoded"
    /\ Len(prompts) = 2
    /\ prompts[1].positive = List(<<>>)
    /\ prompts[2].positive = List(<<"b">>)
    /\ CacheGet(cache, "positive") = Empty
    /\ encCalls["positive"] = 0

\* C9: each of the four embeddings of every PromptEmbedsPair is the encoding
\* of its own settings' prompt for that role (the empty marker for an empty
\* list): never absent, never another settings' encoding.
C9_PairsHoldOwnEncodings ==
    \A n \in 1 .. Len(prompt_pairs) :
        \A r \in {"target", "positive", "unconditional", "neutral"} :
            prompt_pairs[n][r] = OwnEncoding(prompt_pairs[n].settings[r])

====
